---------------------------- MODULE Spec2Model ----------------------------
(***************************************************************************)
(* Field matching and value normalisation of the inspection-report         *)
(* extractor (src/app.py).  A string is a sequence of characters; a        *)
(* character is a one-character string, and the five non-ASCII characters  *)
(* the program reads or writes are named by their code points.             *)
(***************************************************************************)
EXTENDS Integers, Sequences, FiniteSets, TLC

\* ------------------------------------------------------------ characters

MICRO   == "U+00B5"   \* micro sign, written by the Surface Profile rule
SUNNY   == "U+6674"   \* weather_map['fine']
CLOUDY  == "U+66C7"   \* weather_map['cloud']
RAINY   == "U+96E8"   \* weather_map['rain']
FWCOLON == "U+FF1A"   \* full-width colon, a label separator

\* \s of the regular expressions and the characters str.strip() removes.
Space == {" ", "\t"}

\* \d
Digit == {"0", "1", "2", "3", "4", "5", "6", "7", "8", "9"}

UpperLetters ==
  <<"A","B","C","D","E","F","G","H","I","J","K","L","M",
    "N","O","P","Q","R","S","T","U","V","W","X","Y","Z">>

LowerLetters ==
  <<"a","b","c","d","e","f","g","h","i","j","k","l","m",
    "n","o","p","q","r","s","t","u","v","w","x","y","z">>

Range(f) == {f[x] : x \in DOMAIN f}

UpperSet == Range(UpperLetters)

\* [A-Za-z0-9]
Alnum == Digit \cup UpperSet \cup Range(LowerLetters)

\* str.lower() on one character (and what re.IGNORECASE compares).
LowerChar(c) ==
  IF c \in UpperSet
    THEN LowerLetters[CHOOSE k \in DOMAIN UpperLetters : UpperLetters[k] = c]
    ELSE c

Lower(s) == [k \in 1..Len(s) |-> LowerChar(s[k])]

\* --------------------------------------------------------------- strings

Min(S) == CHOOSE x \in S : \A y \in S : x <= y

\* s[i:] with i counted from 1.
From(s, i) == SubSeq(s, i, Len(s))

\* s[:i-1] with i counted from 1.
Upto(s, i) == SubSeq(s, 1, i - 1)

\* The first index >= i of s whose character is not in C (Len(s)+1 if none):
\* where a greedy C* started at i ends.
RECURSIVE Skip(_, _, _)
Skip(s, i, C) ==
  IF i <= Len(s) /\ s[i] \in C THEN Skip(s, i + 1, C) ELSE i

\* The last index of s whose character is not in C (0 if none).
RECURSIVE SkipBack(_, _, _)
SkipBack(s, i, C) ==
  IF i >= 1 /\ s[i] \in C THEN SkipBack(s, i - 1, C) ELSE i

\* s[i] in C, false past the end of s.
At(s, i, C) == i >= 1 /\ i <= Len(s) /\ s[i] \in C

\* str.strip()
Strip(s) == SubSeq(s, Skip(s, 1, Space), SkipBack(s, Len(s), Space))

\* s.startswith(p)
StartsWith(s, p) == Len(p) <= Len(s) /\ SubSeq(s, 1, Len(p)) = p

\* p occurs in s at index i.
OccursAt(s, i, p) ==
  i >= 1 /\ i + Len(p) - 1 <= Len(s) /\ SubSeq(s, i, i + Len(p) - 1) = p

\* p in s
Contains(s, p) == \E i \in 1..(Len(s) + 1) : OccursAt(s, i, p)

\* p occurs in s at index i, compared as re.IGNORECASE does (p in lower case).
OccursAtIgnoreCase(s, i, p) ==
  /\ i >= 1
  /\ i + Len(p) - 1 <= Len(s)
  /\ \A k \in 1..Len(p) : LowerChar(s[i + k - 1]) = p[k]

\* s.split(sep) for a one-character separator.
RECURSIVE Split(_, _)
Split(s, sep) ==
  LET j == Skip(s, 1, Range(s) \ {sep})
  IN  IF j > Len(s) THEN <<s>>
      ELSE <<Upto(s, j)>> \o Split(From(s, j + 1), sep)

\* sep.join(parts)
RECURSIVE Join(_, _)
Join(parts, sep) ==
  IF parts = <<>> THEN <<>>
  ELSE IF Len(parts) = 1 THEN parts[1]
  ELSE parts[1] \o <<sep>> \o Join(Tail(parts), sep)

\* str.zfill(2) of a string of one or two digits.
Zfill2(s) == IF Len(s) < 2 THEN <<"0">> \o s ELSE s

\* re.sub(r'\s+', ' ', line)
RECURSIVE CollapseSpace(_)
CollapseSpace(s) ==
  IF s = <<>> THEN <<>>
  ELSE IF s[1] \in Space
    THEN <<" ">> \o CollapseSpace(From(s, Skip(s, 1, Space)))
    ELSE <<s[1]>> \o CollapseSpace(Tail(s))

\* ------------------------------------------------------------ the catalog

TARGET_ITEMS_27 ==
  << "ShipNo.",
     "Kind of Material",
     "Place",
     "Inspection Date",
     "Inspection Time",
     "Weather",
     "Dry bulb Temp",
     "Wet bulb Temp",
     "Relative Humidity",
     "Dew Point",
     "Surface Temp",
     "Judgement",
     "Surface Cleanliness",
     "Surface Profile",
     "Water Soluble Salt",
     "Dust",
     "Oil / Grease",
     "contamination of abrasive",
     "Manufacturer",
     "Product name",
     "ID number",
     "Batch No Base",
     "Batch No Hard",
     "Lower",
     "Upper",
     "Measured D.F.T",
     "Curing" >>

ItemChars ==
  << <<"S","h","i","p","N","o",".">>,
     <<"K","i","n","d"," ","o","f"," ","M","a","t","e","r","i","a","l">>,
     <<"P","l","a","c","e">>,
     <<"I","n","s","p","e","c","t","i","o","n"," ","D","a","t","e">>,
     <<"I","n","s","p","e","c","t","i","o","n"," ","T","i","m","e">>,
     <<"W","e","a","t","h","e","r">>,
     <<"D","r","y"," ","b","u","l","b"," ","T","e","m","p">>,
     <<"W","e","t"," ","b","u","l","b"," ","T","e","m","p">>,
     <<"R","e","l","a","t","i","v","e"," ","H","u","m","i","d","i","t","y">>,
     <<"D","e","w"," ","P","o","i","n","t">>,
     <<"S","u","r","f","a","c","e"," ","T","e","m","p">>,
     <<"J","u","d","g","e","m","e","n","t">>,
     <<"S","u","r","f","a","c","e"," ","C","l","e","a","n","l","i","n","e","s","s">>,
     <<"S","u","r","f","a","c","e"," ","P","r","o","f","i","l","e">>,
     <<"W","a","t","e","r"," ","S","o","l","u","b","l","e"," ","S","a","l","t">>,
     <<"D","u","s","t">>,
     <<"O","i","l"," ","/"," ","G","r","e","a","s","e">>,
     <<"c","o","n","t","a","m","i","n","a","t","i","o","n"," ","o","f"," ","a","b","r","a","s","i","v","e">>,
     <<"M","a","n","u","f","a","c","t","u","r","e","r">>,
     <<"P","r","o","d","u","c","t"," ","n","a","m","e">>,
     <<"I","D"," ","n","u","m","b","e","r">>,
     <<"B","a","t","c","h"," ","N","o"," ","B","a","s","e">>,
     <<"B","a","t","c","h"," ","N","o"," ","H","a","r","d">>,
     <<"L","o","w","e","r">>,
     <<"U","p","p","e","r">>,
     <<"M","e","a","s","u","r","e","d"," ","D",".","F",".","T">>,
     <<"C","u","r","i","n","g">> >>

ItemCount == Len(TARGET_ITEMS_27)

\* numeric_items of process_value
numeric_items ==
  {"Dry bulb Temp", "Wet bulb Temp", "Relative Humidity", "Dew Point",
   "Surface Temp", "Water Soluble Salt", "Lower", "Upper", "Measured D.F.T"}

\* ------------------------------------------------- process_value: the rules

\* re.search(r'(\d{4})-(\d{1,2})-(\d{1,2})', text) tried at index i: the
\* formatted date, or <<>> when the pattern does not match at i.  A two-digit
\* month is tried first; it can only give way to a one-digit month when the
\* character after the first month digit is the hyphen.
DateAt(s, i) ==
  LET m == IF At(s, i + 5, Digit) /\ At(s, i + 6, Digit) /\ At(s, i + 7, {"-"})
             THEN 2
           ELSE IF At(s, i + 5, Digit) /\ At(s, i + 6, {"-"}) THEN 1
           ELSE 0
      d == i + 5 + m + 1
      n == IF At(s, d, Digit) /\ At(s, d + 1, Digit) THEN 2
           ELSE IF At(s, d, Digit) THEN 1
           ELSE 0
  IN  IF /\ \A k \in i..(i + 3) : At(s, k, Digit)
         /\ At(s, i + 4, {"-"})
         /\ m > 0
         /\ n > 0
        THEN SubSeq(s, i, i + 3) \o <<"/">>
               \o Zfill2(SubSeq(s, i + 5, i + 4 + m)) \o <<"/">>
               \o Zfill2(SubSeq(s, d, d + n - 1))
        ELSE <<>>

InspectionDate(text) ==
  LET hits == {i \in 1..Len(text) : DateAt(text, i) # <<>>}
  IN  IF hits # {} THEN DateAt(text, Min(hits)) ELSE text

\* One element of text.split('/') in the Weather rule: the list of what it
\* appends to processed_parts (nothing or one string).
WeatherPart(raw) ==
  LET part == Strip(raw)
  IN  IF part \in {<<"-">>, <<"-", "/", "-">>, <<>>, <<"-", " ", "-">>}
        THEN <<>>
      ELSE IF Contains(Lower(part), <<"f", "i", "n", "e">>) THEN <<<<SUNNY>>>>
      ELSE IF Contains(Lower(part), <<"c", "l", "o", "u", "d">>)
        THEN <<<<CLOUDY>>>>
      ELSE IF Contains(Lower(part), <<"r", "a", "i", "n">>) THEN <<<<RAINY>>>>
      ELSE IF part # <<>> /\ ~(Range(part) \subseteq Space \cup {"-"})
        THEN <<part>>
      ELSE <<>>

RECURSIVE WeatherParts(_)
WeatherParts(parts) ==
  IF parts = <<>> THEN <<>>
  ELSE WeatherPart(parts[1]) \o WeatherParts(Tail(parts))

Weather(text) == Join(WeatherParts(Split(text, "/")), "/")

\* re.search(r'(\d+-\d+)\s*um', text) tried at index i: the index after
\* group 1, or 0.  Both \d+ take the whole run of digits: a shorter run would
\* leave a digit where '-' or \s*um has to match.
RangeAt(s, i) ==
  LET j == Skip(s, i, Digit)
      k == Skip(s, j + 1, Digit)
      u == Skip(s, k, Space)
  IN  IF j > i /\ At(s, j, {"-"}) /\ k > j + 1 /\ OccursAt(s, u, <<"u", "m">>)
        THEN k
        ELSE 0

SurfaceProfile(text) ==
  LET hits == {i \in 1..Len(text) : RangeAt(text, i) # 0}
  IN  IF hits # {}
        THEN SubSeq(text, Min(hits), RangeAt(text, Min(hits)) - 1)
               \o <<" ", MICRO, "m">>
        ELSE text

\* re.search of  C+ - D+  tried at index i: the index after the match, or 0.
\* '-' is in neither class, so both runs are the whole runs.
HyphenPairAt(s, i, C, D) ==
  LET j == Skip(s, i, C)
      k == Skip(s, j + 1, D)
  IN  IF j > i /\ At(s, j, {"-"}) /\ k > j + 1 THEN k ELSE 0

\* re.search(r'([A-Za-z0-9]+-[0-9]+)', text), then '1S0' corrected to 'ISO'.
Dust(text) ==
  LET hits == {i \in 1..Len(text) : HyphenPairAt(text, i, Alnum, Digit) # 0}
      dust_value ==
        SubSeq(text, Min(hits), HyphenPairAt(text, Min(hits), Alnum, Digit) - 1)
  IN  IF hits = {} THEN text
      ELSE IF StartsWith(dust_value, <<"1", "S", "0">>)
        THEN <<"I", "S", "O">> \o From(dust_value, 4)
        ELSE dust_value

\* re.search(r'([A-Za-z0-9]+-[A-Za-z0-9]+)', text)
IdNumber(text) ==
  LET hits == {i \in 1..Len(text) : HyphenPairAt(text, i, Alnum, Alnum) # 0}
  IN  IF hits = {} THEN text
      ELSE SubSeq(text, Min(hits),
                  HyphenPairAt(text, Min(hits), Alnum, Alnum) - 1)

\* re.search(r'(\d{1,2}:\d{2})', text) tried at index i: the index after the
\* match, or 0.
TimeAt(s, i) ==
  IF /\ At(s, i, Digit) /\ At(s, i + 1, Digit) /\ At(s, i + 2, {":"})
     /\ At(s, i + 3, Digit) /\ At(s, i + 4, Digit)
    THEN i + 5
  ELSE IF /\ At(s, i, Digit) /\ At(s, i + 1, {":"})
          /\ At(s, i + 2, Digit) /\ At(s, i + 3, Digit)
    THEN i + 4
  ELSE 0

InspectionTime(text) ==
  LET hits == {i \in 1..Len(text) : TimeAt(text, i) # 0}
  IN  IF hits = {} THEN text
      ELSE SubSeq(text, Min(hits), TimeAt(text, Min(hits)) - 1)

\* r'\s*-\s*-\s*' tried at index i: the index after the match, or 0.
DoubleHyphenAt(s, i) ==
  LET a == Skip(s, i, Space)
      b == Skip(s, a + 1, Space)
  IN  IF At(s, a, {"-"}) /\ At(s, b, {"-"}) THEN Skip(s, b + 1, Space) ELSE 0

\* re.sub(r'\s*-\s*-\s*', '', text): every match, left to right, each search
\* resuming where the previous match ended.
RECURSIVE RemoveDoubleHyphens(_)
RemoveDoubleHyphens(s) ==
  IF s = <<>> THEN <<>>
  ELSE IF DoubleHyphenAt(s, 1) # 0
    THEN RemoveDoubleHyphens(From(s, DoubleHyphenAt(s, 1)))
    ELSE <<s[1]>> \o RemoveDoubleHyphens(Tail(s))

\* r'\s*-\s*$' matches at index i.
TrailingHyphenAt(s, i) ==
  LET a == Skip(s, i, Space)
  IN  At(s, a, {"-"}) /\ Skip(s, a + 1, Space) > Len(s)

\* A faulty variant of RemoveTrailingHyphen: the pattern r'-\s*$', which
\* leaves the white space before the hyphen.
RemoveTrailingHyphenOnly(s) ==
  LET hits == {i \in 1..Len(s) : At(s, i, {"-"}) /\ Skip(s, i + 1, Space) > Len(s)}
  IN  IF hits = {} THEN s ELSE Upto(s, Min(hits))

\* re.sub(r'\s*-\s*$', '', text)
RemoveTrailingHyphen(s) ==
  LET hits == {i \in 1..Len(s) : TrailingHyphenAt(s, i)}
  IN  IF hits = {} THEN s ELSE Upto(s, Min(hits))

\* number_pattern r'-?\d+(?:\.\d+)?(?:[eE][+-]?\d+)?' tried at index i: the
\* index after the match, or 0.
NumberAt(s, i) ==
  LET p == IF At(s, i, {"-"}) THEN i + 1 ELSE i
      j == Skip(s, p, Digit)
      k == IF At(s, j, {"."}) /\ At(s, j + 1, Digit)
             THEN Skip(s, j + 1, Digit) ELSE j
      q == IF At(s, k + 1, {"+", "-"}) THEN k + 2 ELSE k + 1
  IN  IF j = p THEN 0
      ELSE IF At(s, k, {"e", "E"}) /\ At(s, q, Digit) THEN Skip(s, q, Digit)
      ELSE k

\* re.search(number_pattern, text), then number_match.group() or text.
NumberOrText(text) ==
  LET hits == {i \in 1..Len(text) : NumberAt(text, i) # 0}
  IN  IF hits = {} THEN text
      ELSE SubSeq(text, Min(hits), NumberAt(text, Min(hits)) - 1)

\* The else branch of process_value: the blank markers go, then a numeric
\* item keeps its first number only.
OtherItem(item_name, text) ==
  LET cleaned == RemoveTrailingHyphen(RemoveDoubleHyphens(text))
  IN  IF item_name \in numeric_items THEN NumberOrText(cleaned) ELSE cleaned

process_value(item_name, raw) ==
  LET text == Strip(raw)
  IN  IF text = <<>> THEN <<>>
      ELSE IF item_name = "Inspection Date" THEN InspectionDate(text)
      ELSE IF item_name = "Weather" THEN Weather(text)
      ELSE IF item_name = "Surface Profile" THEN SurfaceProfile(text)
      ELSE IF item_name = "Dust" THEN Dust(text)
      ELSE IF item_name = "ID number" THEN IdNumber(text)
      ELSE IF item_name = "Inspection Time" THEN InspectionTime(text)
      ELSE OtherItem(item_name, text)

\* ------------------------------------------- extract_data_from_pdf: one line

\* page_data = {}
EmptyRecord == [k \in {} |-> <<>>]

\* Lines 262-270: the two Weather columns of a processed value.  A value with
\* a '/' splits into at least two parts, of which the first two are kept.
WeatherColumns(processed_value) ==
  IF "/" \in Range(processed_value)
    THEN LET weather_parts == Split(processed_value, "/")
         IN  <<weather_parts[1], weather_parts[2]>>
    ELSE <<processed_value, <<>>>>

\* A faulty variant of StoreValue: Weather stored like any other item.
StoreValueUnsplit(page_data, n, processed_value) ==
  (TARGET_ITEMS_27[n] :> processed_value) @@ page_data

\* page_data[...] = ... of the literal branch, for item number n.
StoreValue(page_data, n, processed_value) ==
  IF TARGET_ITEMS_27[n] = "Weather"
    THEN ("Weather_1" :> WeatherColumns(processed_value)[1])
           @@ ("Weather_2" :> WeatherColumns(processed_value)[2])
           @@ page_data
    ELSE (TARGET_ITEMS_27[n] :> processed_value) @@ page_data

\* re.sub(r'^[:：\s]+', '', value_text)
StripSeparators(value_text) ==
  From(value_text, Skip(value_text, 1, Space \cup {":", FWCOLON}))

\* Lines 254-278: the line starts with the identifier of item n.  An empty
\* value_text is stored as the empty string, which is what process_value
\* makes of it.
LiteralMatch(page_data, n, cleaned_line) ==
  LET value_text ==
        StripSeparators(Strip(From(cleaned_line, Len(ItemChars[n]) + 1)))
  IN  IF value_text # <<>>
        THEN StoreValue(page_data, n,
                        process_value(TARGET_ITEMS_27[n], value_text))
        ELSE StoreValue(page_data, n, <<>>)

\* r'Ship\s*No' (re.IGNORECASE) tried at index i: the index after it, or 0.
ShipNoAt(s, i) ==
  LET a == Skip(s, i + 4, Space)
  IN  IF /\ OccursAtIgnoreCase(s, i, <<"s", "h", "i", "p">>)
         /\ OccursAtIgnoreCase(s, a, <<"n", "o">>)
        THEN a + 2
        ELSE 0

\* r'Dry\s+bulb\s+Temp' (re.IGNORECASE) tried at index i: the index after
\* it, or 0.
DryBulbTempAt(s, i) ==
  LET a == Skip(s, i + 3, Space)
      b == Skip(s, a + 4, Space)
  IN  IF /\ OccursAtIgnoreCase(s, i, <<"d", "r", "y">>)
         /\ a > i + 3
         /\ OccursAtIgnoreCase(s, a, <<"b", "u", "l", "b">>)
         /\ b > a + 4
         /\ OccursAtIgnoreCase(s, b, <<"t", "e", "m", "p">>)
        THEN b + 4
        ELSE 0

\* Group 1 of r'\.?\s*[:\s]*([^\n\r]+)' matched from index k of s, <<>> when
\* it does not match.  The group needs one character: when the optional dot
\* and the separators reach the end of the line, they give the last
\* character back to the group; when nothing follows k there is no match.
AliasGroup(s, k) ==
  LET t == IF At(s, k, {"."}) THEN k + 1 ELSE k
      u == Skip(s, t, Space \cup {":"})
  IN  IF k > Len(s) THEN <<>>
      ELSE IF u <= Len(s) THEN From(s, u)
      ELSE <<s[Len(s)]>>

\* The indices of the line where the alias of item n is found (the elif
\* conditions of lines 282 and 291; the trailing \.?\s* always matches).
AliasHits(n, cleaned_line) ==
  IF TARGET_ITEMS_27[n] = "ShipNo."
    THEN {i \in 1..Len(cleaned_line) : ShipNoAt(cleaned_line, i) # 0}
  ELSE IF TARGET_ITEMS_27[n] = "Dry bulb Temp"
    THEN {i \in 1..Len(cleaned_line) : DryBulbTempAt(cleaned_line, i) # 0}
  ELSE {}

\* The index after the alias of item n found at index i.
AliasEnd(n, cleaned_line, i) ==
  IF TARGET_ITEMS_27[n] = "ShipNo." THEN ShipNoAt(cleaned_line, i)
  ELSE DryBulbTempAt(cleaned_line, i)

\* Lines 283-287 and 292-296: the second search, with its group; page_data
\* is written only if it matches.
AliasMatch(page_data, n, cleaned_line) ==
  LET hits == {i \in AliasHits(n, cleaned_line) :
                 AliasGroup(cleaned_line, AliasEnd(n, cleaned_line, i)) # <<>>}
      value_text ==
        Strip(AliasGroup(cleaned_line, AliasEnd(n, cleaned_line, Min(hits))))
  IN  IF hits = {} THEN page_data
      ELSE (TARGET_ITEMS_27[n] :>
              process_value(TARGET_ITEMS_27[n], value_text)) @@ page_data

\* for item in TARGET_ITEMS_27, from item number n on: the item at which the
\* loop breaks (0 if it runs to its end) and page_data after it.
RECURSIVE ScanItems(_, _, _)
ScanItems(page_data, cleaned_line, n) ==
  IF n > ItemCount THEN [item |-> 0, page_data |-> page_data]
  ELSE IF StartsWith(cleaned_line, ItemChars[n])
    THEN [item |-> n, page_data |-> LiteralMatch(page_data, n, cleaned_line)]
  ELSE IF AliasHits(n, cleaned_line) # {}
    THEN [item |-> n, page_data |-> AliasMatch(page_data, n, cleaned_line)]
  ELSE ScanItems(page_data, cleaned_line, n + 1)

\* cleaned_line = re.sub(r'\s+', ' ', line).strip()
CleanLine(line) == Strip(CollapseSpace(line))

\* Lines 248-297: the body of  for line in lines.
ScanLine(page_data, line) ==
  IF CleanLine(line) = <<>> THEN [item |-> 0, page_data |-> page_data]
  ELSE ScanItems(page_data, CleanLine(line), 1)

\* ------------------------------------------------------------- the inputs

MaxPages == 3
MaxLines == 2
MaxLen == 3

\* "ShipNo. AB-123"
LineShipNo ==
  <<"S","h","i","p","N","o","."," ","A","B","-","1","2","3">>

\* "Ship No"
LineShipAliasBare ==
  <<"S","h","i","p"," ","N","o">>

\* "Weather fine / rain"
LineWeather ==
  <<"W","e","a","t","h","e","r"," ","f","i","n","e"," ","/"," ","r","a","i","n">>

\* "Weather :"
LineWeatherBare ==
  <<"W","e","a","t","h","e","r"," ",":">>

\* "Remarks none"
LineRemarks ==
  <<"R","e","m","a","r","k","s"," ","n","o","n","e">>

\* " \t"
LineBlank ==
  <<" ","\t">>

LineSet ==
  {LineShipNo,
   LineShipAliasBare,
   LineWeather,
   LineWeatherBare,
   LineRemarks,
   LineBlank}

\* What pytesseract.image_to_string can return for a page, as
\* page_text.split('\n'): one to MaxLines lines.
PageTexts == UNION {[1..k -> LineSet] : k \in 1..MaxLines}

\* The characters of the raw values normalisation is tried on.
Alphabet == {"1", "2", "a", "-", ":", "/", ".", " "}

Fixtures ==
  {(* 2025-3-7 *) <<"2","0","2","5","-","3","-","7">>,
   (* 2025/03/07 *) <<"2","0","2","5","/","0","3","/","0","7">>,
   (* M2-10000A *) <<"M","2","-","1","0","0","0","0","A">>,
   (* 30-75 um *) <<"3","0","-","7","5"," ","u","m">>,
   (* 1S08502-3 *) <<"1","S","0","8","5","0","2","-","3">>,
   (* 07:45 - - *) <<"0","7",":","4","5"," ","-"," ","-">>,
   (* 23.5 degC *) <<"2","3",".","5"," ","d","e","g","C">>,
   (* fine / rain *) <<"f","i","n","e"," ","/"," ","r","a","i","n">>,
   (* fine / rain / cloud *) <<"f","i","n","e"," ","/"," ","r","a","i","n"," ","/"," ","c","l","o","u","d">>,
   (* -/- *) <<"-","/","-">>,
   (* 1- -2 *) <<"1","-"," ","-","2">>,
   (* -5 *) <<"-","5">>}

RawValues == Fixtures \cup UNION {[1..k -> Alphabet] : k \in 0..MaxLen}

\* The lines the scan of one line is tried on: a label, a separator, a
\* rest.
AliasLabels ==
  {(* Ship No *) <<"S","h","i","p"," ","N","o">>,
   (* Ship No. *) <<"S","h","i","p"," ","N","o",".">>,
   (* shipno *) <<"s","h","i","p","n","o">>,
   (* Dry bulb Temp. *) <<"D","r","y"," ","b","u","l","b"," ","T","e","m","p",".">>,
   (* DRY BULB TEMP *) <<"D","R","Y"," ","B","U","L","B"," ","T","E","M","P">>,
   (* dry  bulb\ttemp. *) <<"d","r","y"," "," ","b","u","l","b","\t","t","e","m","p",".">>,
   (* Remarks *) <<"R","e","m","a","r","k","s">>}

Separators ==
  {(* empty *) <<>>,
   (*   *) <<" ">>,
   (* :  *) <<":"," ">>,
   (* ： *) <<"U+FF1A">>,
   (*  :  *) <<" ",":"," ">>}

Tails ==
  {(* empty *) <<>>,
   (* 5 *) <<"5">>,
   (* AB-123 *) <<"A","B","-","1","2","3">>,
   (* fine / rain *) <<"f","i","n","e"," ","/"," ","r","a","i","n">>,
   (* -/- *) <<"-","/","-">>,
   (* 23.5 degC *) <<"2","3",".","5"," ","d","e","g","C">>,
   (* - - *) <<"-"," ","-">>,
   (* x Ship No. 7 *) <<"x"," ","S","h","i","p"," ","N","o","."," ","7">>,
   (* y dry bulb temp 9 *) <<"y"," ","d","r","y"," ","b","u","l","b"," ","t","e","m","p"," ","9">>}

Labels == Range(ItemChars) \cup AliasLabels

ScanLines == {l \o s \o t : l \in Labels, s \in Separators, t \in Tails}

\* page_data before that line: nothing, or values of earlier lines.
EarlierRecords ==
  {EmptyRecord,
   ("ShipNo." :> <<"o", "l", "d">>) @@ ("Weather_1" :> <<SUNNY>>)
     @@ ("Weather_2" :> <<RAINY>>)}

\* --------------------------------------------------------------- the state

VARIABLES
  pc,              \* where extract_data_from_pdf is
  total_pages,     \* len(pdf.pages)
  i,               \* page.page_number of the page of the loop
  lines,           \* the lines of page_text still to be read
  page_data,       \* the PageRecord of the page of the loop
  all_pages_data,  \* the Document
  result,          \* what extract_data_from_pdf returned
  records,         \* history: page_data of every page the loop has left
  outcome,         \* history: how the loop left each page
  matched_lines,   \* history: per item number, the last cleaned line of this
                   \* page whose scan broke at it
  scan_line,       \* the scan of one line alone: the line,
  scan_before,     \* page_data before it,
  scan_item,       \* the item number the scan broke at, or 0,
  scan_after,      \* page_data after it,
  scan_pc,         \* and where the scan is
  call_item,       \* process_value alone: the item number,
  call_text,       \* the raw value,
  call_result,     \* the value returned,
  call_columns,    \* the columns it is stored in,
  call_again,      \* the value returned for call_result,
  call_pc          \* and where the two calls are

extract_vars ==
  <<pc, total_pages, i, lines, page_data, all_pages_data, result, records,
    outcome, matched_lines>>

scan_vars == <<scan_line, scan_before, scan_item, scan_after, scan_pc>>

call_vars ==
  <<call_item, call_text, call_result, call_columns, call_again, call_pc>>

vars == <<extract_vars, scan_vars, call_vars>>

Pending == [kind |-> "pending", data |-> <<>>]
None == [kind |-> "None", data |-> <<>>]
Document(data) == [kind |-> "list", data |-> data]

\* page_text and page_text.strip()
HasText(text) == \E k \in 1..Len(text) : Strip(text[k]) # <<>>

NoRun ==
  /\ pc = "idle"
  /\ total_pages = 0
  /\ i = 1
  /\ lines = <<>>
  /\ page_data = EmptyRecord
  /\ all_pages_data = <<>>
  /\ result = Pending
  /\ records = <<>>
  /\ outcome = <<>>
  /\ matched_lines = EmptyRecord

NoScan ==
  /\ scan_line = <<>>
  /\ scan_before = EmptyRecord
  /\ scan_item = 0
  /\ scan_after = EmptyRecord
  /\ scan_pc = "idle"

NoCall ==
  /\ call_item = 1
  /\ call_text = <<>>
  /\ call_result = <<>>
  /\ call_columns = EmptyRecord
  /\ call_again = <<>>
  /\ call_pc = "idle"

Init ==
  /\ pc = "open"
  /\ total_pages \in 0..MaxPages
  /\ i = 1
  /\ lines = <<>>
  /\ page_data = EmptyRecord
  /\ all_pages_data = <<>>
  /\ result = Pending
  /\ records = <<>>
  /\ outcome = <<>>
  /\ matched_lines = EmptyRecord
  /\ NoScan
  /\ NoCall

\* --------------------------------------------- extract_data_from_pdf: steps

\* Lines 213-219: the upload is saved and pdfplumber opens it.
OpenPdf ==
  /\ pc = "open"
  /\ pc' = "page"
  /\ UNCHANGED <<total_pages, i, lines, page_data, all_pages_data, result,
                 records, outcome, matched_lines>>
  /\ UNCHANGED <<scan_vars, call_vars>>

\* Lines 213-217 raise: the outer handler returns None.
OpenFails ==
  /\ pc = "open"
  /\ pc' = "returned"
  /\ result' = None
  /\ UNCHANGED <<total_pages, i, lines, page_data, all_pages_data, records,
                 outcome, matched_lines>>
  /\ UNCHANGED <<scan_vars, call_vars>>

\* Lines 221-238: the page of the loop is rendered and decoded.
Rasterize ==
  /\ pc = "page"
  /\ i <= total_pages
  /\ page_data' = EmptyRecord
  /\ matched_lines' = EmptyRecord
  /\ pc' = "ocr"
  /\ UNCHANGED <<total_pages, i, lines, all_pages_data, result, records,
                 outcome>>
  /\ UNCHANGED <<scan_vars, call_vars>>

\* Lines 229-238 raise (fitz.open, get_pixmap, tobytes, Image.open): they
\* stand before the inner try, so the outer handler of lines 315-317 gets the
\* exception and returns None.
RasterizeFails ==
  /\ pc = "page"
  /\ i <= total_pages
  /\ page_data' = EmptyRecord
  /\ matched_lines' = EmptyRecord
  /\ outcome' = Append(outcome, "raster_error")
  /\ result' = None
  /\ pc' = "returned"
  /\ UNCHANGED <<total_pages, i, lines, all_pages_data, records>>
  /\ UNCHANGED <<scan_vars, call_vars>>

\* Lines 242-245: OCR returns the text of the page.
Ocr ==
  /\ pc = "ocr"
  /\ \E text \in PageTexts : lines' = IF HasText(text) THEN text ELSE <<>>
  /\ pc' = "lines"
  /\ UNCHANGED <<total_pages, i, page_data, all_pages_data, result, records,
                 outcome, matched_lines>>
  /\ UNCHANGED <<scan_vars, call_vars>>

\* A faulty variant of Collect: every page is kept.
CollectAlways(document, record) == Append(document, record)

\* Lines 304-305: the page is kept if anything was written for it.
Collect(document, record) ==
  IF record # EmptyRecord THEN Append(document, record) ELSE document

\* The page is left: lines 304-305 and the loop's step.
LeavePage(how) ==
  /\ all_pages_data' = Collect(all_pages_data, page_data)
  /\ records' = Append(records, page_data)
  /\ outcome' = Append(outcome, how)
  /\ i' = i + 1
  /\ pc' = "page"

\* A faulty variant of OcrRaises: no inner handler, so that the outer one
\* returns None as it does for RasterizeFails.
OcrRaisesUncaught ==
  /\ pc = "ocr"
  /\ records' = Append(records, page_data)
  /\ outcome' = Append(outcome, "ocr_error")
  /\ result' = None
  /\ pc' = "returned"
  /\ UNCHANGED <<total_pages, i, lines, page_data, all_pages_data,
                 matched_lines>>
  /\ UNCHANGED <<scan_vars, call_vars>>

\* Line 242 raises: lines 298-302 warn and close, and the page is left.
OcrRaises ==
  /\ pc = "ocr"
  /\ LeavePage("ocr_error")
  /\ UNCHANGED <<total_pages, lines, page_data, result, matched_lines>>
  /\ UNCHANGED <<scan_vars, call_vars>>

\* Lines 247-297: one line of the page.
ReadLine ==
  /\ pc = "lines"
  /\ lines # <<>>
  /\ LET scan == ScanLine(page_data, Head(lines))
     IN  /\ page_data' = scan.page_data
         /\ matched_lines' = IF scan.item # 0
                               THEN (scan.item :> CleanLine(Head(lines)))
                                      @@ matched_lines
                               ELSE matched_lines
  /\ lines' = Tail(lines)
  /\ UNCHANGED <<pc, total_pages, i, all_pages_data, result, records, outcome>>
  /\ UNCHANGED <<scan_vars, call_vars>>

\* The lines are read: lines 301-305.
EndPage ==
  /\ pc = "lines"
  /\ lines = <<>>
  /\ LeavePage("ok")
  /\ UNCHANGED <<total_pages, lines, page_data, result, matched_lines>>
  /\ UNCHANGED <<scan_vars, call_vars>>

\* Lines 307-313: the loop is over.
Return ==
  /\ pc = "page"
  /\ i > total_pages
  /\ result' = Document(all_pages_data)
  /\ pc' = "returned"
  /\ UNCHANGED <<total_pages, i, lines, page_data, all_pages_data, records,
                 outcome, matched_lines>>
  /\ UNCHANGED <<scan_vars, call_vars>>

Next ==
  \/ OpenPdf
  \/ OpenFails
  \/ Rasterize
  \/ RasterizeFails
  \/ Ocr
  \/ OcrRaises
  \/ ReadLine
  \/ EndPage
  \/ Return

Spec == Init /\ [][Next]_vars

\* ------------------------------------------------ the scan of a line alone

ScanInit ==
  /\ NoRun
  /\ NoCall
  /\ scan_line \in ScanLines
  /\ scan_before \in EarlierRecords
  /\ scan_item = 0
  /\ scan_after = EmptyRecord
  /\ scan_pc = "line"

\* Lines 248-297 for one line.
Scan ==
  /\ scan_pc = "line"
  /\ scan_item' = ScanLine(scan_before, scan_line).item
  /\ scan_after' = ScanLine(scan_before, scan_line).page_data
  /\ scan_pc' = "scanned"
  /\ UNCHANGED <<scan_line, scan_before>>
  /\ UNCHANGED <<extract_vars, call_vars>>

ScanNext == Scan

ScanSpec == ScanInit /\ [][ScanNext]_vars

\* ------------------------------------------------- process_value on its own

CallInit ==
  /\ NoRun
  /\ NoScan
  /\ call_item \in 1..ItemCount
  /\ call_text \in RawValues
  /\ call_result = <<>>
  /\ call_columns = EmptyRecord
  /\ call_again = <<>>
  /\ call_pc = "call"

\* processed_value = process_value(item, value_text), stored as lines
\* 260-272 store it.
Normalize ==
  /\ call_pc = "call"
  /\ call_result' = process_value(TARGET_ITEMS_27[call_item], call_text)
  /\ call_columns' = StoreValue(EmptyRecord, call_item, call_result')
  /\ call_pc' = "once"
  /\ UNCHANGED <<call_item, call_text, call_again>>
  /\ UNCHANGED <<extract_vars, scan_vars>>

\* process_value on the value it returned.
NormalizeAgain ==
  /\ call_pc = "once"
  /\ call_again' = process_value(TARGET_ITEMS_27[call_item], call_result)
  /\ call_pc' = "twice"
  /\ UNCHANGED <<call_item, call_text, call_result, call_columns>>
  /\ UNCHANGED <<extract_vars, scan_vars>>

CallNext ==
  \/ Normalize
  \/ NormalizeAgain

CallSpec == CallInit /\ [][CallNext]_vars

\* ---------------------------------------------------------------- C1

\* C1: a page whose rasterization fails does not abort the run: the pages
\* after it are still processed, the records collected before it are kept,
\* and the run returns a Document, not a failure value.
C1_RasterFailureDoesNotAbort ==
  \A p \in 1..Len(outcome) :
    outcome[p] = "raster_error" =>
      /\ result # None
      /\ pc = "returned" =>
           /\ Len(outcome) = total_pages
           /\ result = Document(all_pages_data)

\* ---------------------------------------------------------------- C2

\* The records of recs that are not empty, those of the pages in skip left
\* out, from page q on, in page order.
RECURSIVE KeptFrom(_, _, _)
KeptFrom(recs, skip, q) ==
  IF q > Len(recs) THEN <<>>
  ELSE (IF q \notin skip /\ recs[q] # EmptyRecord THEN <<recs[q]>> ELSE <<>>)
         \o KeptFrom(recs, skip, q + 1)

OcrFailed == {p \in 1..Len(outcome) : outcome[p] = "ocr_error"}

\* C2: a page p whose OCR raises has an empty PageRecord, which is dropped;
\* the loop goes on with page p+1 and the run does not fail there; the
\* Document holds, in page order, the records of all the other pages left
\* so far for which a field was written; and a Document that is returned
\* holds them for all the other pages of the source.
C2_OcrFailureIsLocal ==
  /\ \A p \in OcrFailed :
       /\ records[p] = EmptyRecord
       /\ Len(outcome) = p =>
            /\ i = p + 1
            /\ result # None
            /\ pc = "returned" => p = total_pages
  /\ OcrFailed # {} =>
       /\ all_pages_data = KeptFrom(records, OcrFailed, 1)
       /\ result.kind = "list" =>
            /\ Len(records) = total_pages
            /\ result.data = KeptFrom(records, OcrFailed, 1)

\* An OCR failure on a page between two pages that each gave a record, and
\* the Document returned with those two records.
C2_Witness ==
  /\ pc = "returned"
  /\ result.kind = "list"
  /\ Len(outcome) = 3
  /\ outcome[2] = "ocr_error"
  /\ records[1] # EmptyRecord
  /\ records[3] # EmptyRecord
  /\ result.data = <<records[1], records[3]>>

\* ---------------------------------------------------------------- C3

C3_Subsequence ==
  /\ all_pages_data = KeptFrom(records, {}, 1)
  /\ \A k \in 1..Len(all_pages_data) : all_pages_data[k] # EmptyRecord
  /\ Len(all_pages_data) <= Len(records)
  /\ Len(records) <= total_pages
  /\ result.kind = "list" =>
       /\ result.data = all_pages_data
       /\ Len(records) = total_pages

C3_AppendOnly ==
  /\ Len(all_pages_data') >= Len(all_pages_data)
  /\ SubSeq(all_pages_data', 1, Len(all_pages_data)) = all_pages_data

\* C3: the Document is exactly the non-empty PageRecords of the pages the
\* loop has left, in page order: no record is empty, a page with nothing
\* written gives none, the Document is no longer than the page count, what
\* is returned is that Document, and a record once appended is neither
\* moved nor changed.
C3_DocumentIsNonEmptyRecordsInOrder ==
  []C3_Subsequence /\ [][C3_AppendOnly]_vars

\* A returned Document shorter than the page count: a page with text but no
\* field was dropped between two pages that were kept.
C3_Witness ==
  /\ pc = "returned"
  /\ result.kind = "list"
  /\ Len(records) = 3
  /\ outcome[2] = "ok"
  /\ records[2] = EmptyRecord
  /\ result.data = <<records[1], records[3]>>
  /\ records[1] # EmptyRecord
  /\ records[3] # EmptyRecord

\* ---------------------------------------------------------------- C4

\* The index after the label of item n on a line the scan gave to item n:
\* after the identifier the line starts with, or after the alias and its
\* optional dot.
LabelEnd(n, cleaned) ==
  IF StartsWith(cleaned, ItemChars[n]) THEN Len(ItemChars[n]) + 1
  ELSE LET k == AliasEnd(n, cleaned, Min(AliasHits(n, cleaned)))
       IN  IF At(cleaned, k, {"."}) THEN k + 1 ELSE k

\* The raw value of such a line: what follows the label, the label
\* separators stripped from its head.
RawValueOf(n, cleaned) ==
  StripSeparators(Strip(From(cleaned, LabelEnd(n, cleaned))))

\* record holds the columns of item n with the normalized value.
HoldsValue(record, n, value) ==
  LET columns == StoreValue(EmptyRecord, n, value)
  IN  \A key \in DOMAIN columns :
        key \in DOMAIN record /\ record[key] = columns[key]

\* C4: when the lines of a page have been read, the value(s) of every item
\* are the normalized value of the last line matched to that item, matched
\* by identifier or by alias, with a value or without.
C4_LastMatchedLineWins ==
  (pc = "lines" /\ lines = <<>>) =>
    \A n \in DOMAIN matched_lines :
      HoldsValue(page_data, n,
                 process_value(TARGET_ITEMS_27[n],
                               RawValueOf(n, matched_lines[n])))

\* ---------------------------------------------------------------- C5

\* C5: a line matched to an item, by identifier or by alias, with nothing
\* but label separators after the label still counts: the record then holds
\* the item with the empty string (both Weather columns for Weather).
C5_EmptyValueStillCounts ==
  (/\ scan_pc = "scanned"
   /\ scan_item # 0
   /\ RawValueOf(scan_item, CleanLine(scan_line)) = <<>>) =>
    HoldsValue(scan_after, scan_item, <<>>)

\* ---------------------------------------------------------------- C6

\* C6: a line that starts with the identifier of an item is matched to that
\* item and to no other, and an alias claims a line only when the line
\* begins with the alias.
C6_NoShadowing ==
  scan_pc = "scanned" =>
    /\ \A n \in 1..ItemCount :
         StartsWith(CleanLine(scan_line), ItemChars[n]) => scan_item = n
    /\ (/\ scan_item # 0
        /\ ~StartsWith(CleanLine(scan_line), ItemChars[scan_item])) =>
         1 \in AliasHits(scan_item, CleanLine(scan_line))

\* ---------------------------------------------------------------- C7

\* The keys a PageRecord may have: the identifiers but Weather, and the two
\* Weather columns.
RecordKeys ==
  (Range(TARGET_ITEMS_27) \ {"Weather"}) \cup {"Weather_1", "Weather_2"}

\* C7: while a page is assembled, the keys of its PageRecord are among the
\* 26 identifiers other than Weather and the two Weather columns; the key
\* Weather is never there; and Weather_1 is there exactly when Weather_2 is.
C7_RecordKeys ==
  /\ DOMAIN page_data \subseteq RecordKeys
  /\ "Weather" \notin DOMAIN page_data
  /\ "Weather_1" \in DOMAIN page_data <=> "Weather_2" \in DOMAIN page_data

\* A page being assembled with ShipNo. and, from a Weather line without a
\* value, both Weather columns written empty.
C7_Witness ==
  /\ pc = "lines"
  /\ DOMAIN page_data = {"ShipNo.", "Weather_1", "Weather_2"}
  /\ page_data["Weather_1"] = <<>>
  /\ page_data["Weather_2"] = <<>>

\* ---------------------------------------------------------------- C8

\* C8: process_value applied to the value it returned returns that value
\* again, for every item and raw value; 2025/03/07 for Inspection Date and
\* M2-10000A for ID number are returned as they are.
C8_Idempotent ==
  /\ call_pc = "twice" => call_again = call_result
  /\ (/\ call_pc # "call"
      /\ \/ /\ TARGET_ITEMS_27[call_item] = "Inspection Date"
            /\ call_text = <<"2","0","2","5","/","0","3","/","0","7">>
         \/ /\ TARGET_ITEMS_27[call_item] = "ID number"
            /\ call_text = <<"M","2","-","1","0","0","0","0","A">>) =>
       call_result = call_text

\* A raw value that normalisation changed, normalised again.
C8_Witness ==
  /\ call_pc = "twice"
  /\ TARGET_ITEMS_27[call_item] = "Inspection Date"
  /\ call_text = <<"2","0","2","5","-","3","-","7">>
  /\ call_result = <<"2","0","2","5","/","0","3","/","0","7">>
  /\ call_again = call_result

\* ---------------------------------------------------------------- C9

\* C9: with J the joined Weather value, if J has a '/', Weather_1 is what
\* stands before its first '/' and Weather_2 all that stands after it, so
\* that Weather_1 / Weather_2 is J again; without a '/', Weather_1 is J and
\* Weather_2 is empty.
C9_WeatherSplitsAtFirstSlash ==
  (call_pc # "call" /\ TARGET_ITEMS_27[call_item] = "Weather") =>
    IF "/" \in Range(call_result)
      THEN call_columns["Weather_1"] \o <<"/">> \o call_columns["Weather_2"]
             = call_result
      ELSE /\ call_columns["Weather_1"] = call_result
           /\ call_columns["Weather_2"] = <<>>

\* ---------------------------------------------------------------- C10

\* s is one number of number_pattern and nothing else.
IsNumber(s) == s # <<>> /\ NumberAt(s, 1) = Len(s) + 1

\* C10: for a numeric item, a number that process_value returns stands in
\* the raw value as it is: removing blank markers never joins two numbers.
C10_NumberStandsInRawValue ==
  (/\ call_pc # "call"
   /\ TARGET_ITEMS_27[call_item] \in numeric_items
   /\ IsNumber(call_result)) =>
    Contains(call_text, call_result)

=============================================================================
